---- MODULE Spec2Model ----
(***************************************************************************)
(* Model of script/etl/pipeline.py: the weather source routing of          *)
(* load_weather_data, the production / anomaly / telemetry transforms and  *)
(* the left joins and derived ratio of main.                               *)
(*                                                                         *)
(* Dates are day numbers.  A datetime is <<day, tod>>, where tod = 0 is    *)
(* exactly 00:00:00.000000 and tod = 1 any later instant of that day.      *)
(* A DataFrame is [columns |-> set of names, rows |-> sequence of records  *)
(* whose domain is columns]; the sensor table, which is only ever counted  *)
(* and summed, is a bag of readings.                                       *)
(***************************************************************************)
EXTENDS Integers, Sequences, FiniteSets, Bags, TLC

VARIABLES
    now,                       \* datetime.now() of the run
    sql_data,                  \* the production DataFrame
    iot_data,                  \* the sensor readings
    weather_data,              \* outcome of load_weather_data
    anomaly_data,              \* outcome of get_anomaly_data
    transformed_sql_data,      \* outcome of transform_sql_data
    transformed_iot_data,      \* outcome of transform_iot_data
    daily_production_metrics   \* outcome of main

vars == <<now, sql_data, iot_data, weather_data, anomaly_data,
          transformed_sql_data, transformed_iot_data, daily_production_metrics>>

(***************************************************************************)
(* Bounds of the model and constants of the program                        *)
(***************************************************************************)
NumDates == 2
MaxRows == 3
MaxReadingKinds == 3
Burst == 25
FreshnessDays == 90
HoursPerDay == 24

Dates == 1..NumDates
TimesOfDay == {0, 1}
NowDays == FreshnessDays..(FreshnessDays + NumDates + 1)
Tons == {-1, 0, 2}
Grades == {2, 4}
Fuels == {0, 5}
Equipment == {"EX01", "EX02"}
Statuses == {"active", "idle"}
Hours == {13}
HttpStatus == {200, 500}
RequiredColumns == {"date", "tons_extracted", "quality_grade"}

\* A result slot before the operation has run.
Pending == [state |-> "pending"]

(***************************************************************************)
(* Generic helpers                                                         *)
(***************************************************************************)
Range(s) == {s[i] : i \in 1..Len(s)}

RECURSIVE SetToSortedSeq(_)
SetToSortedSeq(S) ==
    IF S = {} THEN <<>>
    ELSE LET m == CHOOSE x \in S : \A y \in S : x <= y
         IN <<m>> \o SetToSortedSeq(S \ {m})

\* The sum of f over the set S.
RECURSIVE SumOver(_, _)
SumOver(S, f) ==
    IF S = {} THEN 0
    ELSE LET i == CHOOSE x \in S : TRUE IN f[i] + SumOver(S \ {i}, f)

\* The subsets of S of at most n elements.
RECURSIVE SubsetsUpTo(_, _)
SubsetsUpTo(S, n) ==
    IF n = 0 THEN {{}}
    ELSE LET P == SubsetsUpTo(S, n - 1) IN P \cup {T \cup {x} : T \in P, x \in S}

IsSortedByDate(s) == \A i \in 1..(Len(s) - 1) : s[i].date <= s[i + 1].date

Injections(n) == {p \in [1..n -> 1..n] : \A i, j \in 1..n : p[i] = p[j] => i = j}

\* DataFrame.sort("date") keeps no order among rows of equal date
\* (maintain_order is False): every ordering that is ascending by date.
SortByDate(s) ==
    {t \in {[i \in 1..Len(s) |-> s[p[i]]] : p \in Injections(Len(s))} :
        IsSortedByDate(t)}

(***************************************************************************)
(* datetime                                                                *)
(***************************************************************************)
Strptime(day) == <<day, 0>>
Strftime(dt) == dt[1]
MinusDays(dt, n) == <<dt[1] - n, dt[2]>>
DtLess(a, b) == a[1] < b[1] \/ (a[1] = b[1] /\ a[2] < b[2])
DtGeq(a, b) == ~DtLess(a, b)

(***************************************************************************)
(* load_weather_data                                                       *)
(***************************************************************************)
\* A date argument: <<"ok", day>>, the empty string or a malformed string.
DateArgs == ({"ok"} \X Dates) \cup {<<"empty", 0>>, <<"malformed", 0>>}

is_valid_date(arg) == arg[1] = "ok"

Request(endpoint, s, e) == [endpoint |-> endpoint, start_date |-> s, end_date |-> e]

\* The "daily" series an endpoint serves for start_date..end_date (both
\* inclusive): one observation per day, tagged with the endpoint it came from.
OpenMeteoDaily(req) ==
    [i \in 1..(IF req.end_date >= req.start_date
               THEN req.end_date - req.start_date + 1 ELSE 0) |->
        [date |-> req.start_date + i - 1, origin |-> req.endpoint]]

WeatherFailure(kind, requests, failed) ==
    [state |-> "raised", error |-> kind, requests |-> requests,
     failed |-> failed, table |-> <<>>]

WeatherReturn(requests, response) ==
    [state |-> "returned", error |-> "none", requests |-> requests,
     failed |-> <<>>, table |-> response]

\* One endpoint alone: request, status check, the "daily" series.
FetchOne(req, status) ==
    IF status # 200
    THEN WeatherFailure("ConnectionError", <<req>>, <<req>>)
    ELSE WeatherReturn(<<req>>, OpenMeteoDaily(req))

\* A bug FetchBoth could have: the forecast status is not checked, and the
\* archive rows are returned alone when the forecast call failed.
FetchBoth_PartialResult(archive, forecast, status_archive, status_forecast) ==
    IF status_archive # 200
    THEN WeatherFailure("ConnectionError", <<archive, forecast>>, <<archive>>)
    ELSE WeatherReturn(<<archive, forecast>>,
            OpenMeteoDaily(archive)
            \o (IF status_forecast = 200 THEN OpenMeteoDaily(forecast) ELSE <<>>))

\* Both endpoints: both requests are sent, then the archive status is
\* checked, then the forecast status, then the forecast series is appended
\* to the archive series.
FetchBoth(archive, forecast, status_archive, status_forecast) ==
    IF status_archive # 200
    THEN WeatherFailure("ConnectionError", <<archive, forecast>>, <<archive>>)
    ELSE IF status_forecast # 200
    THEN WeatherFailure("ConnectionError", <<archive, forecast>>, <<forecast>>)
    ELSE WeatherReturn(<<archive, forecast>>,
            OpenMeteoDaily(archive) \o OpenMeteoDaily(forecast))

LoadWeatherData(start_date, end_date, now_, status_archive, status_forecast) ==
    IF start_date[1] = "empty" \/ end_date[1] = "empty"
    THEN WeatherFailure("ValueError", <<>>, <<>>)
    ELSE IF ~is_valid_date(start_date) \/ ~is_valid_date(end_date)
    THEN WeatherFailure("ValueError", <<>>, <<>>)
    ELSE IF DtLess(Strptime(end_date[2]), Strptime(start_date[2]))
    THEN WeatherFailure("ValueError", <<>>, <<>>)
    ELSE
      LET start_date_ == Strptime(start_date[2])
          end_date_ == Strptime(end_date[2])
          split_date == MinusDays(now_, FreshnessDays)
          split_date_ == Strftime(split_date)
      IN
        IF DtLess(start_date_, split_date) /\ DtGeq(end_date_, split_date)
        THEN FetchBoth(Request("archive", start_date[2], split_date_),
                       Request("forecast", split_date_, end_date[2]),
                       status_archive, status_forecast)
        ELSE IF DtLess(start_date_, split_date) /\ DtLess(end_date_, split_date)
        THEN FetchOne(Request("archive", start_date[2], end_date[2]), status_archive)
        ELSE FetchOne(Request("forecast", start_date[2], end_date[2]), status_forecast)

EmptyFrame == [columns |-> {}, rows |-> <<>>]

InitWeather ==
    /\ now \in NowDays \X TimesOfDay
    /\ sql_data = EmptyFrame
    /\ iot_data = EmptyBag
    /\ weather_data = Pending
    /\ anomaly_data = Pending
    /\ transformed_sql_data = Pending
    /\ transformed_iot_data = Pending
    /\ daily_production_metrics = Pending

\* One invocation of load_weather_data; the arguments and the status of each
\* endpoint's answer are the environment's.
CallLoadWeatherData ==
    /\ weather_data = Pending
    /\ \E start_date, end_date \in DateArgs, sa, sf \in HttpStatus :
          weather_data' =
              [start_date |-> start_date, end_date |-> end_date,
               status |-> [archive |-> sa, forecast |-> sf]]
              @@ LoadWeatherData(start_date, end_date, now, sa, sf)
    /\ UNCHANGED <<now, sql_data, iot_data, anomaly_data, transformed_sql_data,
                   transformed_iot_data, daily_production_metrics>>

NextWeather == CallLoadWeatherData

SpecWeather == InitWeather /\ [][NextWeather]_vars

(***************************************************************************)
(* Production input, transform_sql_data and get_anomaly_data               *)
(***************************************************************************)
ProductionRows == [date : Dates, tons_extracted : Tons, quality_grade : Grades]

RowsOf(columns) == {[c \in columns |-> r[c]] : r \in ProductionRows}

\* frame is a frame over the given rows with at most n of them; a frame
\* without columns has no rows.
IsFrameOf(frame, columns, rows, n) ==
    \E k \in 0..(IF columns = {} THEN 0 ELSE n) :
        \E s \in [1..k -> rows] : frame = [columns |-> columns, rows |-> s]

is_empty(frame) == Len(frame.rows) = 0

Raised(kind, at) == [state |-> "raised", error |-> kind, at |-> at, table |-> <<>>]

Returned(table) == [state |-> "returned", error |-> "none", at |-> "none", table |-> table]

\* Bugs the clamp could have: no clamp at all, or the magnitude kept.
Clamp_Missing(tons) == tons

Clamp_Magnitude(tons) == IF tons >= 0 THEN tons ELSE 0 - tons

\* when(tons_extracted >= 0).then(tons_extracted).otherwise(0)
Clamp(tons) == IF tons >= 0 THEN tons ELSE 0

RowsOn(rows, date) == SelectSeq(rows, LAMBDA r : r.date = date)

RECURSIVE SumClamped(_)
SumClamped(rows) ==
    IF rows = <<>> THEN 0
    ELSE Clamp(Head(rows).tons_extracted) + SumClamped(Tail(rows))

RECURSIVE SumGrades(_)
SumGrades(rows) ==
    IF rows = <<>> THEN 0 ELSE Head(rows).quality_grade + SumGrades(Tail(rows))

\* group_by("date").agg(...).sort("date"): one row per group, the mean kept
\* as <<sum, count>>.
DailyProduction(rows) ==
    LET days == SetToSortedSeq({rows[i].date : i \in 1..Len(rows)})
    IN [k \in 1..Len(days) |->
          [date |-> days[k],
           total_production_daily |-> SumClamped(RowsOn(rows, days[k])),
           average_quality_grade |->
               <<SumGrades(RowsOn(rows, days[k])), Len(RowsOn(rows, days[k]))>>]]

TransformSqlData(frame) ==
    IF is_empty(frame) THEN Raised("ValueError", "entry")
    ELSE IF "tons_extracted" \notin frame.columns THEN Raised("ValueError", "entry")
    ELSE IF "quality_grade" \notin frame.columns THEN Raised("ValueError", "entry")
    ELSE IF "date" \notin frame.columns THEN Raised("ValueError", "entry")
    ELSE Returned(DailyProduction(frame.rows))

\* A bug the filter could have: zero counted as an anomaly.
AnomalyFilter_ZeroIncluded(rows) == SelectSeq(rows, LAMBDA r : r.tons_extracted <= 0)

\* filter(pl.col("tons_extracted") < 0)
AnomalyFilter(rows) == SelectSeq(rows, LAMBDA r : r.tons_extracted < 0)

\* Every outcome get_anomaly_data can have on the frame: the sort fails on a
\* frame without a date column, and orders equal dates either way.
GetAnomalyData(frame) ==
    IF is_empty(frame) THEN {Raised("ValueError", "entry")}
    ELSE IF "tons_extracted" \notin frame.columns THEN {Raised("ValueError", "entry")}
    ELSE IF "date" \notin frame.columns THEN {Raised("ColumnNotFoundError", "sort")}
    ELSE {Returned(t) : t \in SortByDate(AnomalyFilter(frame.rows))}

InitSql ==
    /\ now = <<FreshnessDays, 0>>
    /\ \E columns \in SUBSET RequiredColumns :
          IsFrameOf(sql_data, columns, RowsOf(columns), MaxRows)
    /\ iot_data = EmptyBag
    /\ weather_data = Pending
    /\ anomaly_data = Pending
    /\ transformed_sql_data = Pending
    /\ transformed_iot_data = Pending
    /\ daily_production_metrics = Pending

CallTransformSqlData ==
    /\ transformed_sql_data = Pending
    /\ transformed_sql_data' = TransformSqlData(sql_data)
    /\ UNCHANGED <<now, sql_data, iot_data, weather_data, anomaly_data,
                   transformed_iot_data, daily_production_metrics>>

CallGetAnomalyData ==
    /\ anomaly_data = Pending
    /\ anomaly_data' \in GetAnomalyData(sql_data)
    /\ UNCHANGED <<now, sql_data, iot_data, weather_data, transformed_sql_data,
                   transformed_iot_data, daily_production_metrics>>

NextSql == CallTransformSqlData \/ CallGetAnomalyData

SpecSql == InitSql /\ [][NextSql]_vars

(***************************************************************************)
(* Sensor input and transform_iot_data                                     *)
(***************************************************************************)
\* A timestamp is <<date, hour>>.
Readings ==
    [equipment_id : Equipment, timestamp : Dates \X Hours,
     status : Statuses, fuel_consumption : Fuels]

\* bag is a sensor table made of at most n kinds of reading among R, each
\* kind read as often as one of counts.
IsSensorTable(bag, R, n, counts) == \E S \in SubsetsUpTo(R, n) : bag \in [S -> counts]

\* timestamp.dt.date()
DtDate(timestamp) == timestamp[1]

ReadingsOn(bag, date) == {r \in DOMAIN bag : DtDate(r.timestamp) = date}

\* iot_data["equipment_id"].n_unique()
TotalEquipment(bag) == Cardinality({r.equipment_id : r \in DOMAIN bag})

ActiveCount(bag, date) ==
    SumOver({r \in ReadingsOn(bag, date) : r.status = "active"}, bag)

\* A bug the ratio could have: the equipment seen that day as denominator.
Utilization_EquipmentOfTheDay(bag, date) ==
    <<ActiveCount(bag, date),
      HoursPerDay * Cardinality({r.equipment_id : r \in ReadingsOn(bag, date)})>>

\* (status == "active").sum() / (24 * total_equipment), kept as
\* <<numerator, denominator>>.
Utilization(bag, date) ==
    <<ActiveCount(bag, date), HoursPerDay * TotalEquipment(bag)>>

TotalFuel(bag, date) ==
    SumOver(ReadingsOn(bag, date), [r \in DOMAIN bag |-> r.fuel_consumption * bag[r]])

TransformIotData(bag) ==
    IF DOMAIN bag = {} THEN Raised("ValueError", "entry")
    ELSE LET days == SetToSortedSeq({DtDate(r.timestamp) : r \in DOMAIN bag})
         IN Returned([k \in 1..Len(days) |->
                [date |-> days[k],
                 equipment_utilization |-> Utilization(bag, days[k]),
                 total_fuel_consumption |-> TotalFuel(bag, days[k])]])

InitIot ==
    /\ now = <<FreshnessDays, 0>>
    /\ sql_data = EmptyFrame
    \* each kind of reading once, or Burst times (a cadence finer than hourly)
    /\ IsSensorTable(iot_data, Readings, MaxReadingKinds, {1, Burst})
    /\ weather_data = Pending
    /\ anomaly_data = Pending
    /\ transformed_sql_data = Pending
    /\ transformed_iot_data = Pending
    /\ daily_production_metrics = Pending

CallTransformIotData ==
    /\ transformed_iot_data = Pending
    /\ transformed_iot_data' = TransformIotData(iot_data)
    /\ UNCHANGED <<now, sql_data, iot_data, weather_data, anomaly_data,
                   transformed_sql_data, daily_production_metrics>>

NextIot == CallTransformIotData

SpecIot == InitIot /\ [][NextIot]_vars

(***************************************************************************)
(* main: load, transform, left joins, fuel_efficiency                      *)
(***************************************************************************)
\* A nullable value is <<>> (null) or <<v>>.
Null == <<>>

\* left.join(right, on="date", how="left"), as <<left row, right row or
\* null>>: every left row, once per right row of its date, or once with null
\* when the right table has none.
RECURSIVE LeftJoin(_, _)
LeftJoin(left, right) ==
    IF left = <<>> THEN <<>>
    ELSE LET l == Head(left)
             matches == SelectSeq(right, LAMBDA r : r.date = l.date)
         IN (IF matches = <<>> THEN <<<<l, Null>>>>
             ELSE [i \in 1..Len(matches) |-> <<l, <<matches[i]>>>>])
            \o LeftJoin(Tail(left), right)

JoinTelemetry(production, telemetry) ==
    LET pairs == LeftJoin(production, telemetry)
    IN [i \in 1..Len(pairs) |->
          pairs[i][1] @@
          (IF pairs[i][2] = Null
           THEN [equipment_utilization |-> Null, total_fuel_consumption |-> Null]
           ELSE [equipment_utilization |-> <<pairs[i][2][1].equipment_utilization>>,
                 total_fuel_consumption |-> <<pairs[i][2][1].total_fuel_consumption>>])]

JoinWeather(table, weather) ==
    LET pairs == LeftJoin(table, weather)
    IN [i \in 1..Len(pairs) |->
          pairs[i][1] @@
          (IF pairs[i][2] = Null THEN [weather |-> Null]
           ELSE [weather |-> <<pairs[i][2][1].origin>>])]

\* A bug the ratio could have: a zero denominator coerced to the ratio 0.
Divide_ZeroCoerced(numerator, denominator) ==
    IF numerator = Null THEN [kind |-> "null"]
    ELSE IF denominator = 0 THEN [kind |-> "finite", num |-> 0, den |-> 1]
    ELSE [kind |-> "finite", num |-> numerator[1], den |-> denominator]

\* total_fuel_consumption / total_production_daily as the float division
\* of two columns: null in, null out; x/0 is inf, -inf or NaN; no exception.
Divide(numerator, denominator) ==
    IF numerator = Null THEN [kind |-> "null"]
    ELSE IF denominator = 0
    THEN (IF numerator[1] = 0 THEN [kind |-> "nan"]
          ELSE IF numerator[1] > 0 THEN [kind |-> "inf"]
          ELSE [kind |-> "-inf"])
    ELSE [kind |-> "finite", num |-> numerator[1], den |-> denominator]

WithFuelEfficiency(table) ==
    [i \in 1..Len(table) |->
        table[i] @@ [fuel_efficiency |->
            Divide(table[i].total_fuel_consumption, table[i].total_production_daily)]]

\* transform_weather_data: every outcome of the sort, or the error.
TransformWeatherData(table) ==
    IF table = <<>> THEN {Raised("ValueError", "entry")}
    ELSE {Returned(s) : s \in SortByDate(table)}

JoinAll(production, telemetry, weather) ==
    WithFuelEfficiency(
        JoinWeather(JoinTelemetry(production, telemetry), weather))

MinDate(frame) == CHOOSE d \in Range(frame.rows) : \A e \in Range(frame.rows) : d.date <= e.date

MaxDate(frame) == CHOOSE d \in Range(frame.rows) : \A e \in Range(frame.rows) : d.date >= e.date

\* The inputs of the runs of main that are explored: production rows of one
\* quality grade, and a sensor file that is empty or holds one reading of
\* one excavator.
MainRows == {r \in ProductionRows : r.quality_grade = 2}

MainReadings == {r \in Readings : r.equipment_id = "EX01" /\ r.status = "active"}

InitMain ==
    /\ IsFrameOf(sql_data, RequiredColumns, MainRows, MaxRows - 1)
    /\ IsSensorTable(iot_data, MainReadings, 1, {1})
    /\ now \in NowDays \X TimesOfDay
    /\ weather_data = Pending
    /\ anomaly_data = Pending
    /\ transformed_sql_data = Pending
    /\ transformed_iot_data = Pending
    /\ daily_production_metrics = Pending

\* One run of main.  It stops at the first stage that raises; the stages
\* after it leave their slot pending.
Main ==
    /\ daily_production_metrics = Pending
    /\ \E sa, sf \in HttpStatus :
        IF is_empty(sql_data)
        THEN /\ daily_production_metrics' = Raised("AttributeError", "MIN_DATE")
             /\ UNCHANGED <<weather_data, anomaly_data, transformed_sql_data,
                            transformed_iot_data>>
        ELSE
          LET loaded == [start_date |-> <<"ok", MinDate(sql_data).date>>,
                         end_date |-> <<"ok", MaxDate(sql_data).date>>,
                         status |-> [archive |-> sa, forecast |-> sf]]
                        @@ LoadWeatherData(<<"ok", MinDate(sql_data).date>>,
                                           <<"ok", MaxDate(sql_data).date>>, now, sa, sf)
              production == TransformSqlData(sql_data)
              telemetry == TransformIotData(iot_data)
          IN
            /\ weather_data' = loaded
            /\ IF loaded.state = "raised"
               THEN /\ daily_production_metrics' = Raised(loaded.error, "load_weather_data")
                    /\ UNCHANGED <<anomaly_data, transformed_sql_data, transformed_iot_data>>
               ELSE
                 /\ anomaly_data' \in GetAnomalyData(sql_data)
                 /\ transformed_sql_data' = production
                 /\ transformed_iot_data' = telemetry
                 /\ IF telemetry.state = "raised"
                    THEN daily_production_metrics' =
                            Raised(telemetry.error, "transform_iot_data")
                    ELSE \E weather \in TransformWeatherData(loaded.table) :
                            daily_production_metrics' =
                              IF weather.state = "raised"
                              THEN Raised(weather.error, "transform_weather_data")
                              ELSE Returned(JoinAll(production.table, telemetry.table,
                                                    weather.table))
    /\ UNCHANGED <<now, sql_data, iot_data>>

NextMain == Main

SpecMain == InitMain /\ [][NextMain]_vars

(***************************************************************************)
(* Claims about load_weather_data (checked under SpecWeather)              *)
(***************************************************************************)
WeatherCalled == weather_data.state # "pending"

ValidRequest ==
    /\ WeatherCalled
    /\ weather_data.start_date[1] = "ok"
    /\ weather_data.end_date[1] = "ok"
    /\ weather_data.start_date[2] <= weather_data.end_date[2]

\* The freshness boundary as a calendar date: the date of now - 90 days.
Boundary == now[1] - FreshnessDays

RequestsTo(endpoint) ==
    {i \in 1..Len(weather_data.requests) : weather_data.requests[i].endpoint = endpoint}

Spanning == ValidRequest /\ Len(weather_data.requests) = 2

\* The dates a request asks its endpoint for.
Covered(req) == req.start_date..req.end_date

\* C1: for every valid request and every now, the routing is decided by the
\* boundary date: end < boundary gives the single request archive[start, end];
\* start >= boundary (start = boundary included) gives the single request
\* forecast[start, end]; any other range gives one archive and one forecast
\* request.
C1_RoutingByBoundaryDate ==
    ValidRequest =>
        LET s == weather_data.start_date[2]
            e == weather_data.end_date[2]
        IN IF e < Boundary
           THEN weather_data.requests = <<Request("archive", s, e)>>
           ELSE IF s >= Boundary
           THEN weather_data.requests = <<Request("forecast", s, e)>>
           ELSE /\ Len(weather_data.requests) = 2
                /\ Cardinality(RequestsTo("archive")) = 1
                /\ Cardinality(RequestsTo("forecast")) = 1

\* C2: when the range spans the boundary the archive request covers
\* [start, boundary) and the forecast request [boundary, end], every date of
\* [start, end] is requested from exactly one source, and the returned table
\* lists the archive rows first, then the forecast rows.
C2_SplitPartitionsRange ==
    Spanning =>
        LET s == weather_data.start_date[2]
            e == weather_data.end_date[2]
            archive == weather_data.requests[1]
            forecast == weather_data.requests[2]
        IN /\ archive.endpoint = "archive" /\ forecast.endpoint = "forecast"
           /\ Covered(archive) = s..(Boundary - 1)
           /\ Covered(forecast) = Boundary..e
           /\ \A d \in s..e :
                 (d \in Covered(archive)) # (d \in Covered(forecast))
           /\ weather_data.state = "returned" =>
                 \A i, j \in 1..Len(weather_data.table) :
                    (weather_data.table[i].origin = "archive"
                     /\ weather_data.table[j].origin = "forecast") => i < j

\* C7: whenever an issued remote call answers with a non-success status the
\* invocation raises the connection error naming an endpoint that failed and
\* returns no table; a table is returned only when every issued call
\* succeeded; no endpoint is requested twice in one invocation.
C7_FailFastNoPartialNoRetry ==
    WeatherCalled =>
        LET reqs == weather_data.requests
            Failed(r) == weather_data.status[r.endpoint] # 200
        IN /\ (\E i \in 1..Len(reqs) : Failed(reqs[i])) =>
                 /\ weather_data.state = "raised"
                 /\ weather_data.error = "ConnectionError"
                 /\ Len(weather_data.failed) = 1
                 /\ weather_data.failed[1] \in Range(reqs)
                 /\ Failed(weather_data.failed[1])
                 /\ weather_data.table = <<>>
           /\ weather_data.state = "returned" =>
                 \A i \in 1..Len(reqs) : ~Failed(reqs[i])
           /\ Cardinality(RequestsTo("archive")) <= 1
           /\ Cardinality(RequestsTo("forecast")) <= 1

\* Both endpoints were asked, the archive answered 200 and the forecast did
\* not: the invocation raised naming the forecast.
C7_Witness ==
    /\ WeatherCalled
    /\ Len(weather_data.requests) = 2
    /\ weather_data.status.archive = 200
    /\ weather_data.status.forecast = 500
    /\ weather_data.state = "raised"
    /\ weather_data.failed = <<weather_data.requests[2]>>

(***************************************************************************)
(* Claims about transform_sql_data and get_anomaly_data (under SpecSql)    *)
(***************************************************************************)
\* A non-empty production input with the required columns.
WellFormedInput == ~is_empty(sql_data) /\ RequiredColumns \subseteq sql_data.columns

InputDates == {sql_data.rows[i].date : i \in 1..Len(sql_data.rows)}

InputRowsOn(date) ==
    {i \in 1..Len(sql_data.rows) : sql_data.rows[i].date = date}

\* The naive per-date sum of tons_extracted.
NaiveSum(date) ==
    SumOver(InputRowsOn(date), [i \in 1..Len(sql_data.rows) |-> sql_data.rows[i].tons_extracted])

\* The sum of the absolute values of the date's rows with tons_extracted < 0.
AnomalyMagnitude(date) ==
    SumOver({i \in InputRowsOn(date) : sql_data.rows[i].tons_extracted < 0},
            [i \in 1..Len(sql_data.rows) |-> 0 - sql_data.rows[i].tons_extracted])

TransformDone == transformed_sql_data.state # "pending"

AnomalyDone == anomaly_data.state # "pending"

TotalOn(date) ==
    LET T == transformed_sql_data.table
    IN T[CHOOSE k \in 1..Len(T) : T[k].date = date].total_production_daily

\* C3: for a non-empty production input with the required columns
\* transform_sql_data returns exactly one row per distinct input date (a date
\* whose rows are all negative included, with total 0), ascending by date,
\* and total_production_daily >= 0 in every row.
C3_OneRowPerDateNonNegative ==
    (TransformDone /\ WellFormedInput) =>
        LET T == transformed_sql_data.table
        IN /\ transformed_sql_data.state = "returned"
           /\ {T[k].date : k \in 1..Len(T)} = InputDates
           /\ Len(T) = Cardinality(InputDates)
           /\ \A k \in 1..(Len(T) - 1) : T[k].date < T[k + 1].date
           /\ \A k \in 1..Len(T) : T[k].total_production_daily >= 0
           /\ \A k \in 1..Len(T) :
                 (\A i \in InputRowsOn(T[k].date) : sql_data.rows[i].tons_extracted < 0)
                     => T[k].total_production_daily = 0

\* Two dates, one of them with negative rows only, both in the output.
C3_Witness ==
    /\ TransformDone /\ WellFormedInput
    /\ Len(transformed_sql_data.table) = 2
    /\ \E d \in InputDates :
          /\ \A i \in InputRowsOn(d) : sql_data.rows[i].tons_extracted < 0
          /\ TotalOn(d) = 0

\* C4 as stated: for every input date, the sum of the absolute values of the
\* date's negative rows equals the naive per-date sum minus
\* total_production_daily.
C4_ClampingIdentityAsStated ==
    (TransformDone /\ WellFormedInput) =>
        \A d \in InputDates : AnomalyMagnitude(d) = NaiveSum(d) - TotalOn(d)

\* C4 amended: for every input date, the sum of the absolute values of the
\* date's negative rows equals total_production_daily minus the naive
\* per-date sum.
C4_ClampingIdentity ==
    (TransformDone /\ WellFormedInput) =>
        \A d \in InputDates : AnomalyMagnitude(d) = TotalOn(d) - NaiveSum(d)

\* A date with a negative and a positive row, aggregated.
C4_Witness ==
    /\ TransformDone /\ WellFormedInput
    /\ \E d \in InputDates :
          /\ \E i \in InputRowsOn(d) : sql_data.rows[i].tons_extracted < 0
          /\ \E i \in InputRowsOn(d) : sql_data.rows[i].tons_extracted > 0
          /\ AnomalyMagnitude(d) > 0

\* The number of times a row occurs in a sequence of rows.
Occurrences(rows, r) == Cardinality({i \in 1..Len(rows) : rows[i] = r})

C6_ExactlyTheNegativeRows ==
    (AnomalyDone /\ WellFormedInput) =>
        LET A == anomaly_data.table
        IN /\ anomaly_data.state = "returned"
           /\ \A r \in Range(sql_data.rows) \cup Range(A) :
                 Occurrences(A, r) =
                     (IF r.tons_extracted < 0 THEN Occurrences(sql_data.rows, r) ELSE 0)
           /\ IsSortedByDate(A)

C6_InputsUntouched ==
    (anomaly_data' # anomaly_data) =>
        (sql_data' = sql_data /\ transformed_sql_data' = transformed_sql_data)

\* C6: for a non-empty production input with the required columns
\* get_anomaly_data returns exactly the input rows with tons_extracted < 0
\* (each as often as it occurs, none with tons_extracted >= 0), ascending by
\* date, and the step leaves the input table and the output of
\* transform_sql_data as they were.
C6_AnomalyRows == [](C6_ExactlyTheNegativeRows) /\ [][C6_InputsUntouched]_vars

\* Anomalies on two dates given out of order, beside a zero row, after
\* transform_sql_data has produced its table.
C6_Witness ==
    /\ AnomalyDone /\ WellFormedInput
    /\ transformed_sql_data.state = "returned"
    /\ Len(anomaly_data.table) = 2
    /\ Len(sql_data.rows) = 3
    /\ sql_data.rows[1].date > sql_data.rows[3].date
    /\ sql_data.rows[1].tons_extracted < 0
    /\ sql_data.rows[2].tons_extracted = 0
    /\ sql_data.rows[3].tons_extracted < 0

\* C10: on every production input get_anomaly_data raises its precondition
\* error at entry if and only if transform_sql_data does, and raises nowhere
\* else.
C10_SamePreconditions ==
    (AnomalyDone /\ TransformDone) =>
        /\ (anomaly_data.state = "raised" /\ anomaly_data.at = "entry")
              <=> (transformed_sql_data.state = "raised" /\ transformed_sql_data.at = "entry")
        /\ anomaly_data.state = "raised" => anomaly_data.at = "entry"

(***************************************************************************)
(* Claims about transform_iot_data (under SpecIot)                         *)
(***************************************************************************)
IotDone == transformed_iot_data.state # "pending"

\* The date's readings with status "active", counted with their multiplicity.
ActiveReadings(date) ==
    BagCardinality([r \in {x \in DOMAIN iot_data :
                              x.timestamp[1] = date /\ x.status = "active"}
                     |-> iot_data[r]])

DistinctEquipment == Cardinality({r.equipment_id : r \in DOMAIN iot_data})

\* u = <<n, d>> is the quotient active / (24 * number of distinct equipment).
IsUtilizationOf(u, date) ==
    /\ u[2] > 0
    /\ u[1] * (HoursPerDay * DistinctEquipment) = ActiveReadings(date) * u[2]

\* C8 as stated: for a non-empty sensor input every returned row has
\* equipment_utilization = active readings of the date / (24 * distinct
\* equipment of the entire input), and the value lies in [0, 1].
C8_UtilizationInUnitInterval ==
    (IotDone /\ DOMAIN iot_data # {}) =>
        /\ transformed_iot_data.state = "returned"
        /\ \A k \in 1..Len(transformed_iot_data.table) :
              LET row == transformed_iot_data.table[k]
                  u == row.equipment_utilization
              IN /\ IsUtilizationOf(u, row.date)
                 /\ 0 <= u[1] /\ u[1] <= u[2]

\* C8 amended: for a non-empty sensor input every returned row has
\* equipment_utilization = active readings of the date / (24 * distinct
\* equipment of the entire input); the value is >= 0, and it is <= 1 exactly
\* when the date has at most 24 * (distinct equipment) active readings.
C8_UtilizationFormula ==
    (IotDone /\ DOMAIN iot_data # {}) =>
        /\ transformed_iot_data.state = "returned"
        /\ \A k \in 1..Len(transformed_iot_data.table) :
              LET row == transformed_iot_data.table[k]
                  u == row.equipment_utilization
              IN /\ IsUtilizationOf(u, row.date)
                 /\ 0 <= u[1]
                 /\ (u[1] <= u[2]) <=>
                        (ActiveReadings(row.date) <= HoursPerDay * DistinctEquipment)

\* Two pieces of equipment, read on different days, one of them more than
\* 48 times while active: that day's utilization is over both and above 1.
C8_Witness ==
    /\ IotDone
    /\ DistinctEquipment = 2
    /\ Len(transformed_iot_data.table) = 2
    /\ \E k \in 1..2 :
          LET u == transformed_iot_data.table[k].equipment_utilization
          IN u[2] = 2 * HoursPerDay /\ u[1] > u[2]

(***************************************************************************)
(* Claims about main (under SpecMain)                                      *)
(***************************************************************************)
MainReturned == daily_production_metrics.state = "returned"

\* C5: after a complete run the final table has exactly one row per distinct
\* production date, whatever routing the weather fetch took.
C5_OneRowPerProductionDate ==
    MainReturned =>
        LET M == daily_production_metrics.table
        IN /\ {M[k].date : k \in 1..Len(M)} = InputDates
           /\ Len(M) = Cardinality(InputDates)

\* Every stage before the ratio has succeeded.
StagesSucceeded ==
    /\ weather_data.state = "returned"
    /\ transformed_sql_data.state = "returned"
    /\ transformed_iot_data.state = "returned"

\* C9: in the final table fuel_efficiency is total_fuel_consumption divided
\* by total_production_daily; on a row whose total_production_daily is zero
\* it is a missing or non-finite marker, never 0 or any finite number; and
\* computing it does not end the run: when every earlier stage succeeded,
\* main returns its table.
C9_FuelEfficiency ==
    /\ StagesSucceeded => MainReturned
    /\ MainReturned =>
        \A k \in 1..Len(daily_production_metrics.table) :
            LET row == daily_production_metrics.table[k]
                e == row.fuel_efficiency
            IN /\ row.total_production_daily = 0 =>
                    e.kind \in {"null", "nan", "inf", "-inf"}
               /\ (row.total_production_daily # 0 /\ row.total_fuel_consumption # Null) =>
                    /\ e.kind = "finite"
                    /\ e.den # 0
                    /\ e.num * row.total_production_daily
                          = row.total_fuel_consumption[1] * e.den
               /\ row.total_fuel_consumption = Null => e.kind = "null"

\* A day without production that burnt fuel: the ratio is the infinity.
C9_Witness ==
    /\ MainReturned
    /\ \E k \in 1..Len(daily_production_metrics.table) :
          LET row == daily_production_metrics.table[k]
          IN /\ row.total_production_daily = 0
             /\ row.total_fuel_consumption = <<5>>
             /\ row.fuel_efficiency.kind = "inf"

====
